---- MODULE Spec2Model ----
(***************************************************************************)
(* Model of src/src/human-mouse.js: the Bezier path planner                *)
(* (generatePath, generateOvershootPath), the mouse controller returned by *)
(* createHumanMouse and the keystroke planner humanType.                   *)
(*                                                                         *)
(* Numbers.  JavaScript numbers are modelled in fixed point.  Lengths (px) *)
(* and times (ms) are integers counting 1/Q of a unit, so a value v is a   *)
(* whole number of pixels or milliseconds exactly when v % Q = 0.          *)
(* Dimensionless factors (Bezier parameter, random draws, 0.15, 0.3 ...)   *)
(* count 1/K.                                                              *)
(*                                                                         *)
(* Randomness.  Math.random() is a generator with hidden state.  A `seed`  *)
(* <<a, b>> fixes the stream of one operation: its k-th draw is entry      *)
(* (a + k*b) mod M of RandTable (uniform draws) or GaussTable (standard    *)
(* normal deviates returned by gaussRandom).  Every operation starts with  *)
(* an arbitrary seed.                                                      *)
(*                                                                         *)
(* Surroundings.  `pointer` is the page's mouse pointer as page.mouse.move *)
(* drives it; `caller` holds which objects of the caller are the very      *)
(* object cursorPos refers to, and whether the caller has set the position *)
(* since the last move.  SpecSeq and SpecOverlap follow them; the other    *)
(* specifications leave them out of sight (Unobserved).                    *)
(*                                                                         *)
(* Overlapping calls.  Under SpecOverlap two calls of moveTo are in        *)
(* progress on one controller: op, pc, loc and ret are then pairs, one     *)
(* entry per call, and a step is what one call runs between two awaits.    *)
(***************************************************************************)
EXTENDS Integers, Sequences, FiniteSets, TLC

VARIABLES cursorPos, op, pc, loc, sink, hook, ret, pointer, caller

vars == <<cursorPos, op, pc, loc, sink, hook, ret, pointer, caller>>

\* ── Fixed point ──

Q == 4 * 5
K == 10 * 100

Px(n) == n * Q
Ms(n) == n * Q

IsInt(v) == v % Q = 0

\* a * f for a factor f counted in 1/K
Mul(a, f) == (a * f) \div K

Max(a, b) == IF a >= b THEN a ELSE b
Min(a, b) == IF a <= b THEN a ELSE b

\* Math.round: nearest integer, halves towards +infinity
MathRound(v) == ((v + Q \div 2) \div Q) * Q

RECURSIVE SqrtIter(_, _, _)
SqrtIter(n, lo, hi) ==
  IF lo >= hi THEN lo
  ELSE LET mid == (lo + hi + 1) \div 2
       IN  IF mid * mid <= n THEN SqrtIter(n, mid, hi)
                             ELSE SqrtIter(n, lo, mid - 1)

\* Math.sqrt on an integer argument, rounded down
MathSqrt(n) == SqrtIter(n, 0, 46340)

\* Fractional bits of the binary logarithm of m / 4096, for 4096 <= m < 8192
RECURSIVE Log2Frac(_, _, _)
Log2Frac(m, bit, acc) ==
  IF bit > 1024 THEN acc
  ELSE LET sq == (m * m) \div 4096
       IN  IF sq >= 8192 THEN Log2Frac(sq \div 2, bit * 2, acc + 1024 \div bit)
                         ELSE Log2Frac(sq, bit * 2, acc)

RECURSIVE Log2Int(_, _)
Log2Int(num, den) == IF num >= 2 * den THEN 1 + Log2Int(num, 2 * den) ELSE 0

RECURSIVE Pow2(_)
Pow2(n) == IF n <= 0 THEN 1 ELSE 2 * Pow2(n - 1)

\* Math.log2(num / den) for num >= den > 0, counted in 1/K
MathLog2(num, den) ==
  LET e == Log2Int(num, den)
      m == (num * 4096) \div (den * Pow2(e))
  IN  e * K + (Log2Frac(m, 2, 0) * K) \div 1024

\* Math.sin(Math.PI * t) for t in [0, K], counted in 1/K (Bhaskara's rational form)
SinPi(t) ==
  LET p == Mul(t, K - t)
  IN  IF p <= 0 THEN 0 ELSE (16 * p * K) \div (5 * K - 4 * p)

\* ── Optional values: {} is undefined, {v} is the value v ──

Undef == {}
Some(v) == {v}
Get(o) == CHOOSE v \in o : TRUE
\* o ?? d
OrElse(o, d) == IF o = {} THEN d ELSE Get(o)
\* o || d (for numbers: undefined and 0 are falsy)
OrDefault(o, d) == IF o = {} \/ o = {0} THEN d ELSE Get(o)

Last(seq) == seq[Len(seq)]

\* body(e) with e evaluated once
With(e, body(_)) == CHOOSE r \in {body(v) : v \in {e}} : TRUE

\* ── Vector math ──

Pt(x, y) == [x |-> x, y |-> y]

vec_add(a, b) == [x |-> a.x + b.x, y |-> a.y + b.y]
vec_sub(a, b) == [x |-> a.x - b.x, y |-> a.y - b.y]
\* s counted in 1/K
vec_mult(a, s) == [x |-> Mul(a.x, s), y |-> Mul(a.y, s)]
vec_mag(a) == MathSqrt(a.x * a.x + a.y * a.y)
\* components of the unit vector counted in 1/K
vec_unit(a) ==
  LET m == vec_mag(a)
  IN  IF m = 0 THEN [x |-> 0, y |-> 0]
      ELSE [x |-> (a.x * K) \div m, y |-> (a.y * K) \div m]
vec_perp(a) == [x |-> a.y, y |-> 0 - a.x]
\* m a length; the result is a vector of lengths
vec_setMag(a, m) == vec_mult(vec_unit(a), m)
vec_lerp(a, b, t) == [x |-> a.x + Mul(b.x - a.x, t), y |-> a.y + Mul(b.y - a.y, t)]

\* vec.mag(a) < 1 and vec.mag(a) > m, decided on the exact squares
MagBelowOne(a) == a.x * a.x + a.y * a.y < Q * Q
MagAbove(a, m) == m < 0 \/ a.x * a.x + a.y * a.y > m * m

\* ── Random helpers ──

RandTable == <<0, 50, 300, 500, 950>>
GaussTable == <<0 - 3500, 1000, 0, 0 - 1000, 3500>>
M == Len(RandTable)
Seeds == (0 .. M - 1) \X (0 .. 2)

DrawIndex(seed, k) == ((seed[1] + k * seed[2]) % M) + 1
\* Math.random(), counted in 1/K
MathRandom(seed, k) == RandTable[DrawIndex(seed, k)]
\* gaussRandom(), counted in 1/K
gaussRandom(seed, k) == GaussTable[DrawIndex(seed, k)]

rand(seed, k, min, max) == Mul(max - min, MathRandom(seed, k)) + min
gauss(seed, k, mean, stddev) == mean + Mul(stddev, gaussRandom(seed, k))

\* ── Bezier curve generation ──

\* [cp1, cp2]; the draws are side (k), then t and the offset factor of each control point
bezierControlPoints(start, end, spread, seed, k) ==
  LET dir == vec_sub(end, start)
      dist == vec_mag(dir)
      clampedSpread == Max(Px(2), Min(Mul(dist, 500), OrDefault(spread, Mul(dist, 300))))
      side == IF MathRandom(seed, k) > 500 THEN 1 ELSE 0 - 1
      makeCP(j) ==
        LET t == rand(seed, j, 200, 800)
            midPoint == vec_lerp(start, end, t)
            normal == vec_setMag(vec_perp(dir),
                                 Mul(clampedSpread, rand(seed, j + 1, 300, 1000)) * side)
        IN  vec_add(midPoint, normal)
      cp1 == makeCP(k + 1)
      cp2 == makeCP(k + 3)
      \* numerator of proj(p); the divisor dist * dist is common to both sides
      projNum(p) == LET d == vec_sub(p, start) IN d.x * dir.x + d.y * dir.y
  IN  IF dist > 0 /\ projNum(cp1) <= projNum(cp2) THEN <<cp1, cp2>> ELSE <<cp2, cp1>>

\* t counted in 1/K
cubicBezier(p0, p1, p2, p3, t) ==
  LET u == K - t
      c0 == Mul(Mul(u, u), u)
      c1 == 3 * Mul(Mul(u, u), t)
      c2 == 3 * Mul(Mul(u, t), t)
      c3 == Mul(Mul(t, t), t)
  IN  [x |-> Mul(p0.x, c0) + Mul(p1.x, c1) + Mul(p2.x, c2) + Mul(p3.x, c3),
       y |-> Mul(p0.y, c0) + Mul(p1.y, c1) + Mul(p2.y, c2) + Mul(p3.y, c3)]

\* ── Path generation ──

\* MotionConfig: every field optional
Opts(steps, tremor, spread, targetWidth, overshootThreshold) ==
  [steps |-> steps, tremor |-> tremor, spread |-> spread,
   targetWidth |-> targetWidth, overshootThreshold |-> overshootThreshold]

NoOpts == Opts(Undef, Undef, Undef, Undef, Undef)

\* Smootherstep ease-in-out, t and the result counted in 1/K
Eased(t) == Mul(Mul(Mul(t, t), t), Mul(t, 6 * t - 15 * K) + 10 * K)

\* dt of the snapped last point of generatePath
SnapDt(seed, k) == rand(seed, k, Ms(2), Ms(6))

\* Point i of the loop of generatePath; its draws are kk (jx), kk+1 (jy), kk+2 (baseDt)
sampledPoint(from, to, cps, tremor, baseSteps, seed, kk, i) ==
  LET t == (i * K) \div baseSteps
      p == cubicBezier(from, cps[1], cps[2], to, Eased(t))
      tremorScale == K - Mul(t, t)
      jx == gauss(seed, kk, 0, Mul(tremor, tremorScale))
      jy == gauss(seed, kk + 1, 0, Mul(tremor, tremorScale))
      speedFactor == 300 + Mul(700, SinPi(t))
      baseDt == rand(seed, kk + 2, Ms(4), Ms(12))
      dt == (baseDt * K) \div Max(speedFactor, 300)
  IN  [x |-> MathRound(p.x + jx), y |-> MathRound(p.y + jy), dt |-> MathRound(dt)]

\* Draws: k0 step count, k0+1..k0+5 control points, three per sampled point, one for the snap
generatePath(from, to, opts, seed, k0) ==
  IF MagBelowOne(vec_sub(to, from)) THEN << [x |-> to.x, y |-> to.y, dt |-> 0] >>
  ELSE
    LET dist == vec_mag(vec_sub(to, from))
        targetWidth == OrDefault(opts.targetWidth, Px(50))
        tremor == OrElse(opts.tremor, (12 * Q) \div 10)
        fittsTime == MathLog2(dist + targetWidth, targetWidth)
    IN  With(OrDefault(opts.steps,
               Max(15, (fittsTime * 18 + rand(seed, k0, 5 * K, 15 * K) + K \div 2) \div K)),
          LAMBDA baseSteps :
            With(bezierControlPoints(from, to, opts.spread, seed, k0 + 1),
              LAMBDA cps :
                LET points == [i \in 1 .. baseSteps + 1 |->
                                sampledPoint(from, to, cps, tremor, baseSteps, seed,
                                             k0 + 6 + 3 * (i - 1), i - 1)]
                IN  [points EXCEPT ![baseSteps + 1] =
                       [x |-> MathRound(to.x), y |-> MathRound(to.y),
                        dt |-> SnapDt(seed, k0 + 6 + 3 * (baseSteps + 1))]]))

\* The point generateOvershootPath aims its first leg at; draws k0 and k0+1
overshootTarget(from, to, seed, k0) ==
  LET dist == vec_mag(vec_sub(to, from))
      overshootDist == rand(seed, k0, Px(8), Min(Px(35), Mul(dist, 80)))
      dir == vec_unit(vec_sub(to, from))
      overshootPoint == vec_add(to, vec_mult(dir, overshootDist))
      perpOffset == vec_mult(vec_perp(dir), gauss(seed, k0 + 1, 0, Mul(overshootDist, 400)))
  IN  vec_add(overshootPoint, perpOffset)

\* dt of the last point of the first leg (the pause at the overshoot)
ApexDt(seed, k) == MathRound(rand(seed, k, Ms(40), Ms(120)))

\* First leg towards target, with the pause at the overshoot
overshootLeg1(from, target, opts, seed, k0) ==
  LET tremor == OrElse(opts.tremor, (12 * Q) \div 10)
  IN  With(generatePath(from, target, [opts EXCEPT !.tremor = Some(Mul(tremor, 1300))],
                        seed, k0 + 2),
        LAMBDA leg1 :
          IF Len(leg1) > 0
          THEN [leg1 EXCEPT ![Len(leg1)].dt = ApexDt(seed, k0 + 3 * Len(leg1) + 9)]
          ELSE leg1)

\* Second leg, from the overshoot back to the target; draws from k2
overshootLeg2(target, to, opts, seed, k2) ==
  LET tremor == OrElse(opts.tremor, (12 * Q) \div 10)
  IN  With(Max(8, MathRound(rand(seed, k2, Px(8), Px(18))) \div Q),
        LAMBDA steps :
          generatePath(target, to,
                       [opts EXCEPT !.steps = Some(steps), !.tremor = Some(Mul(tremor, 600))],
                       seed, k2 + 1))

generateOvershootPath(from, to, opts, seed, k0) ==
  With(overshootTarget(from, to, seed, k0),
    LAMBDA target :
      With(overshootLeg1(from, target, opts, seed, k0),
        LAMBDA leg1 :
          leg1 \o overshootLeg2(target, to, opts, seed, k0 + 3 * Len(leg1) + 10)))

\* A call on the input sink (page.mouse.*, page.waitForTimeout, page.keyboard.press):
\* k the primitive, a and b its numbers, s its text, ok whether it succeeded
Ev(k, a, b, str) == [k |-> k, a |-> a, b |-> b, s |-> str, ok |-> TRUE]
Failed(ev) == [ev EXCEPT !.ok = FALSE]

NoValue == [status |-> "none", x |-> 0, y |-> 0]
Returned(status, x, y) == [status |-> status, x |-> x, y |-> y]

\* The caller holds no object of the controller and has set no position
NoCaller == [same |-> {}, override |-> FALSE]
\* The page's pointer and the caller's objects are not followed
Unobserved == UNCHANGED <<pointer, caller>>

\* ── The planner called directly (low-level exports) ──

MaxSteps == 3

PlanStepsOpts == {Undef} \cup {Some(s) : s \in 2 .. MaxSteps}
PlanOpts ==
  {Opts(s, t, Undef, Undef, Undef) : s \in PlanStepsOpts, t \in {Undef, Some(0)}}

\* from and to: whole and fractional pixels, equal points, less than 1 px apart, far apart,
\* and the 500 px move to the right
PlanFrom == {Pt(0, 0), Pt(Px(3) + 10, Px(4) + 5)}
PlanTo == {Pt(0, 0), Pt(10, 0), Pt(Px(3) + 10, Px(4) + 5), Pt(Px(4), Px(4)),
           Pt(Px(30), Px(40)), Pt(Px(200) + 7, 0 - Px(10)), Pt(Px(500), 0)}

Idle == [name |-> "none"]

InitPlan ==
  /\ cursorPos = Pt(0, 0)
  /\ \E f \in PlanFrom, t \in PlanTo, o \in PlanOpts :
       op = [name |-> "plan", from |-> f, to |-> t, opts |-> o]
  /\ pc = "call"
  /\ loc = Idle
  /\ sink = << >>
  /\ hook = << >>
  /\ ret = NoValue
  /\ pointer = Undef
  /\ caller = NoCaller

CallGeneratePath ==
  /\ pc = "call" /\ op.name = "plan"
  /\ \E seed \in Seeds :
       ret' = [fn |-> "generatePath", path |-> generatePath(op.from, op.to, op.opts, seed, 0)]
  /\ pc' = "done"
  /\ UNCHANGED <<cursorPos, op, loc, sink, hook>>

CallGenerateOvershootPath ==
  /\ pc = "call" /\ op.name = "plan"
  /\ \E seed \in Seeds :
       ret' = [fn |-> "generateOvershootPath",
               path |-> generateOvershootPath(op.from, op.to, op.opts, seed, 0),
               leg1 |-> overshootLeg1(op.from, overshootTarget(op.from, op.to, seed, 0),
                                      op.opts, seed, 0)]
  /\ pc' = "done"
  /\ UNCHANGED <<cursorPos, op, loc, sink, hook>>

NextPlan ==
  \/ CallGeneratePath /\ Unobserved
  \/ CallGenerateOvershootPath /\ Unobserved

SpecPlan == InitPlan /\ [][NextPlan]_vars

\* ── High-level mouse controller (createHumanMouse) ──

\* cursorPos when no startPos is given
DefaultStart(seed) ==
  Pt(MathRound(rand(seed, 0, Px(100), Px(350))), MathRound(rand(seed, 1, Px(300), Px(500))))

StartPositions == {Pt(0, 0)} \cup {DefaultStart(seed) : seed \in {<<0, 0>>, <<3, 1>>}}

Init ==
  /\ cursorPos \in StartPositions
  /\ op = Idle
  /\ pc = "idle"
  /\ loc = Idle
  /\ sink = << >>
  /\ hook = << >>
  /\ ret = NoValue
  /\ pointer = Undef
  /\ caller = NoCaller


\* shouldOvershoot with dist >= overshootThreshold
shouldOvershoot_atLeast(pos, target, moveOpts, seed, k) ==
  LET overshootThreshold == OrElse(moveOpts.overshootThreshold, Px(300))
      d == vec_sub(target, pos)
  IN  (MagAbove(d, overshootThreshold) \/ d.x * d.x + d.y * d.y = overshootThreshold * overshootThreshold)
      /\ MathRandom(seed, k) > 300

\* moveTo's overshoot decision; the coin is flipped only when the distance test passes
shouldOvershoot(pos, target, moveOpts, seed, k) ==
  LET overshootThreshold == OrElse(moveOpts.overshootThreshold, Px(300))
  IN  MagAbove(vec_sub(target, pos), overshootThreshold) /\ MathRandom(seed, k) > 300

\* moveTo up to its first await: the locals of the replay
moveToLocals(x, y, moveOpts, seed, k) ==
  With(shouldOvershoot(cursorPos, Pt(x, y), moveOpts, seed, k),
    LAMBDA over :
      [seed |-> seed, x |-> x, y |-> y, over |-> over, i |-> 1,
       path |-> IF over THEN generateOvershootPath(cursorPos, Pt(x, y), moveOpts, seed, k + 1)
                        ELSE generatePath(cursorPos, Pt(x, y), moveOpts, seed, k + 1),
       from |-> cursorPos, tx |-> 0, ty |-> 0, kc |-> 0])

MoveTo(x, y, moveOpts) ==
  /\ pc = "idle"
  /\ \E seed \in Seeds : loc' = moveToLocals(x, y, moveOpts, seed, 0)
  /\ op' = [name |-> "moveTo", x |-> x, y |-> y, opts |-> moveOpts]
  /\ pc' = "cursor"
  /\ sink' = << >>
  /\ hook' = << >>
  /\ ret' = NoValue
  /\ UNCHANGED cursorPos

\* The point moveToElement picks inside box; draws k and k+1
elementTarget(box, seed, k) ==
  LET padX == Mul(box.width, 150)
      padY == Mul(box.height, 150)
  IN  Pt(MathRound(box.x + padX + rand(seed, k, 0, box.width - 2 * padX)),
         MathRound(box.y + padY + rand(seed, k + 1, 0, box.height - 2 * padY)))

moveToElementLocals(box, moveOpts, seed) ==
  With(elementTarget(box, seed, 0),
    LAMBDA t :
      [moveToLocals(t.x, t.y, [moveOpts EXCEPT !.targetWidth = Some(box.width)], seed, 2)
         EXCEPT !.tx = t.x, !.ty = t.y])

MoveToElement(box, moveOpts) ==
  /\ pc = "idle"
  /\ \E seed \in Seeds : loc' = moveToElementLocals(box, moveOpts, seed)
  /\ op' = [name |-> "moveToElement", box |-> box, opts |-> moveOpts]
  /\ pc' = "cursor"
  /\ sink' = << >>
  /\ hook' = << >>
  /\ ret' = NoValue
  /\ UNCHANGED cursorPos

MoveAndClick(box, label, clickOpts) ==
  /\ pc = "idle"
  /\ \E seed \in Seeds : loc' = [moveToElementLocals(box, clickOpts, seed) EXCEPT !.kc = 1]
  /\ op' = [name |-> "moveAndClick", box |-> box, label |-> label, opts |-> clickOpts]
  /\ pc' = "cursor"
  /\ sink' = << >>
  /\ hook' = << >>
  /\ ret' = NoValue
  /\ UNCHANGED cursorPos

\* ensureVisibleCursor: awaited before the replay.  The debug dot is drawn with
\* page.evaluate, which is no input-sink primitive, and its failure is caught.
EnsureVisibleCursor ==
  /\ pc = "cursor"
  /\ pc' = "move"
  /\ UNCHANGED <<cursorPos, op, loc, sink, hook, ret>>

\* Throw with the rejection swallowed and the call issued again
Throw_retry(ev) ==
  /\ sink' = Append(sink, Failed(ev))
  /\ pc' = pc
  /\ ret' = ret

\* The sink call fails: the rejection leaves the operation through every await above it
Throw(ev) ==
  /\ sink' = Append(sink, Failed(ev))
  /\ pc' = "failed"
  /\ ret' = Returned("error", 0, 0)


\* ReplayDone keeping the last sampled point instead of the target
ReplayDone_lastSampled ==
  /\ cursorPos' = Pt(loc.path[Len(loc.path)].x, loc.path[Len(loc.path)].y)
  /\ loc' = loc
  /\ IF op.name = "moveAndClick"
     THEN pc' = "hover" /\ ret' = ret
     ELSE /\ pc' = "done"
          /\ ret' = IF op.name = "moveToElement" THEN Returned("ok", loc.tx, loc.ty)
                                                 ELSE Returned("ok", 0, 0)

\* moveTo after the last point of the path: cursorPos = { x, y } and the callers' continuations
ReplayDone ==
  /\ cursorPos' = Pt(loc.x, loc.y)
  /\ loc' = loc
  /\ IF op.name = "moveAndClick"
     THEN pc' = "hover" /\ ret' = ret
     ELSE /\ pc' = "done"
          /\ ret' = IF op.name = "moveToElement" THEN Returned("ok", loc.tx, loc.ty)
                                                 ELSE Returned("ok", 0, 0)

\* ReplayNext leaving out every other point
ReplayNext_skip ==
  IF loc.i + 1 < Len(loc.path)
  THEN pc' = "move" /\ loc' = [loc EXCEPT !.i = loc.i + 2] /\ UNCHANGED <<cursorPos, ret>>
  ELSE ReplayDone

ReplayNext ==
  IF loc.i < Len(loc.path)
  THEN pc' = "move" /\ loc' = [loc EXCEPT !.i = loc.i + 1] /\ UNCHANGED <<cursorPos, ret>>
  ELSE ReplayDone

\* await page.mouse.move(point.x, point.y)
ReplayMove ==
  /\ pc = "move"
  /\ LET point == loc.path[loc.i]
         ev == Ev("move", point.x, point.y, "")
     IN  \/ /\ sink' = Append(sink, ev)
            /\ IF point.dt > 0
               THEN pc' = "wait" /\ UNCHANGED <<cursorPos, loc, ret>>
               ELSE ReplayNext
         \/ Throw(ev) /\ UNCHANGED <<cursorPos, loc>>
  /\ UNCHANGED <<op, hook>>

\* await page.waitForTimeout(point.dt)
ReplayWait ==
  /\ pc = "wait"
  /\ LET ev == Ev("delay", loc.path[loc.i].dt, 0, "")
     IN  \/ sink' = Append(sink, ev) /\ ReplayNext
         \/ Throw(ev) /\ UNCHANGED <<cursorPos, loc>>
  /\ UNCHANGED <<op, hook>>

\* ── click and moveAndClick ──

DwellMs(seed, k) == MathRound(rand(seed, k, Ms(60), Ms(180)))
HoldMs(seed, k) == MathRound(rand(seed, k, Ms(50), Ms(120)))
SettleMs(seed, k) == MathRound(rand(seed, k, Ms(80), Ms(200)))
HoverMs(seed, k) == MathRound(rand(seed, k, Ms(100), Ms(400)))

\* clickOpts.button || 'left'
ButtonOf(clickOpts) == IF clickOpts.button = {} \/ clickOpts.button = {""} THEN "left"
                       ELSE Get(clickOpts.button)
\* label || 'element'
LabelOf(label) == IF label = {} \/ label = {""} THEN "element" ELSE Get(label)

Click(clickOpts) ==
  /\ pc = "idle"
  /\ \E seed \in Seeds :
       loc' = [seed |-> seed, x |-> 0, y |-> 0, over |-> FALSE, i |-> 1, path |-> << >>,
               from |-> cursorPos, tx |-> 0, ty |-> 0, kc |-> 0]
  /\ op' = [name |-> "click", opts |-> clickOpts]
  /\ pc' = "dwell"
  /\ sink' = << >>
  /\ hook' = << >>
  /\ ret' = NoValue
  /\ UNCHANGED cursorPos

\* One awaited sink call of click: on success go to `next`
ClickStep(at, ev, next) ==
  /\ pc = at
  /\ \/ sink' = Append(sink, ev) /\ pc' = next /\ ret' = ret
     \/ Throw(ev)
  /\ UNCHANGED <<cursorPos, op, loc, hook>>

\* ClickDown going straight to the release
ClickDown_noHold == ClickStep("down", Ev("down", 0, 0, ButtonOf(op.opts)), "up")

\* Hover without the report to the log hook
Hover_noLog ==
  /\ pc = "hover"
  /\ hook' = hook
  /\ LET ev == Ev("delay", HoverMs(loc.seed, loc.kc - 1), 0, "")
     IN  \/ sink' = Append(sink, ev) /\ pc' = "dwell" /\ ret' = ret
         \/ Throw(ev)
  /\ UNCHANGED <<cursorPos, op, loc>>

\* log(...) then await page.waitForTimeout(hover)
Hover ==
  /\ pc = "hover"
  /\ hook' = Append(hook, [label |-> LabelOf(op.label), x |-> loc.tx, y |-> loc.ty])
  /\ LET ev == Ev("delay", HoverMs(loc.seed, loc.kc - 1), 0, "")
     IN  \/ sink' = Append(sink, ev) /\ pc' = "dwell" /\ ret' = ret
         \/ Throw(ev)
  /\ UNCHANGED <<cursorPos, op, loc>>

ClickDwell == ClickStep("dwell", Ev("delay", DwellMs(loc.seed, loc.kc), 0, ""), "down")
ClickDown == ClickStep("down", Ev("down", 0, 0, ButtonOf(op.opts)), "hold")
ClickHold == ClickStep("hold", Ev("delay", HoldMs(loc.seed, loc.kc + 1), 0, ""), "up")
ClickUp == ClickStep("up", Ev("up", 0, 0, ButtonOf(op.opts)), "settle")

ClickSettle ==
  /\ pc = "settle"
  /\ LET ev == Ev("delay", SettleMs(loc.seed, loc.kc + 2), 0, "")
     IN  \/ /\ sink' = Append(sink, ev)
            /\ pc' = "done"
            /\ ret' = IF op.name = "moveAndClick" THEN Returned("ok", loc.tx, loc.ty)
                                                  ELSE Returned("ok", 0, 0)
         \/ Throw(ev)
  /\ UNCHANGED <<cursorPos, op, loc, hook>>

\* ── idleDrift and humanScroll ──

Abs(v) == IF v < 0 THEN 0 - v ELSE v

\* Math.round(durationMs / rand(200, 500)), a count
DriftSteps(durationMs, seed) ==
  MathRound((durationMs * Q) \div rand(seed, 0, Ms(200), Ms(500))) \div Q

\* The three draws of drift step i start at 3 * i + 1
DriftNext(pos, seed, i) ==
  Pt(MathRound(pos.x + gauss(seed, 3 * i + 1, 0, Px(3))),
     MathRound(pos.y + gauss(seed, 3 * i + 2, 0, Px(3))))
DriftMs(seed, i) == MathRound(rand(seed, 3 * i + 3, Ms(150), Ms(400)))

IdleDrift(durationMs) ==
  /\ pc = "idle"
  /\ \E seed \in Seeds :
       /\ loc' = [seed |-> seed, steps |-> DriftSteps(durationMs, seed), i |-> 0,
                  from |-> cursorPos]
       /\ pc' = IF DriftSteps(durationMs, seed) > 0 THEN "drift" ELSE "done"
       /\ ret' = IF DriftSteps(durationMs, seed) > 0 THEN NoValue ELSE Returned("ok", 0, 0)
  /\ op' = [name |-> "idleDrift", durationMs |-> durationMs]
  /\ sink' = << >>
  /\ hook' = << >>
  /\ UNCHANGED cursorPos

\* DriftMove keeping the old position
DriftMove_noUpdate ==
  /\ pc = "drift"
  /\ LET next == DriftNext(cursorPos, loc.seed, loc.i)
         ev == Ev("move", next.x, next.y, "")
     IN  \/ sink' = Append(sink, ev) /\ pc' = "rest" /\ ret' = ret
         \/ Throw(ev)
  /\ UNCHANGED <<cursorPos, op, loc, hook>>

\* await page.mouse.move(next.x, next.y); cursorPos = next
DriftMove ==
  /\ pc = "drift"
  /\ LET next == DriftNext(cursorPos, loc.seed, loc.i)
         ev == Ev("move", next.x, next.y, "")
     IN  \/ sink' = Append(sink, ev) /\ cursorPos' = next /\ pc' = "rest" /\ ret' = ret
         \/ Throw(ev) /\ UNCHANGED cursorPos
  /\ UNCHANGED <<op, loc, hook>>

\* DriftRest suspending up to ten times as long
DriftRest_long ==
  /\ pc = "rest"
  /\ LET ev == Ev("delay", MathRound(rand(loc.seed, 3 * loc.i + 3, Ms(150), Ms(4000))), 0, "")
         last == loc.i + 1 >= loc.steps
     IN  \/ /\ sink' = Append(sink, ev)
            /\ loc' = [loc EXCEPT !.i = loc.i + 1]
            /\ pc' = IF last THEN "done" ELSE "drift"
            /\ ret' = IF last THEN Returned("ok", 0, 0) ELSE ret
         \/ Throw(ev) /\ loc' = loc
  /\ UNCHANGED <<cursorPos, op, hook>>

\* await page.waitForTimeout(Math.round(rand(150, 400))) and the loop test
DriftRest ==
  /\ pc = "rest"
  /\ LET ev == Ev("delay", DriftMs(loc.seed, loc.i), 0, "")
         last == loc.i + 1 >= loc.steps
     IN  \/ /\ sink' = Append(sink, ev)
            /\ loc' = [loc EXCEPT !.i = loc.i + 1]
            /\ pc' = IF last THEN "done" ELSE "drift"
            /\ ret' = IF last THEN Returned("ok", 0, 0) ELSE ret
         \/ Throw(ev) /\ loc' = loc
  /\ UNCHANGED <<cursorPos, op, hook>>

\* Math.round(rand(3, 6)), a count
ScrollSteps(seed) == MathRound(rand(seed, 0, Px(3), Px(6))) \div Q

\* The two draws of scroll step i start at 2 * i + 1
ScrollAmount(deltaY, seed, i) ==
  LET perStep == deltaY \div ScrollSteps(seed)
  IN  MathRound(perStep + gauss(seed, 2 * i + 1, 0, Mul(Abs(perStep), 150)))
ScrollPauseMs(seed, i) == MathRound(rand(seed, 2 * i + 2, Ms(60), Ms(150)))
ScrollSettleMs(seed, steps) == MathRound(rand(seed, 2 * steps + 1, Ms(200), Ms(500)))

HumanScroll(deltaY) ==
  /\ pc = "idle"
  /\ \E seed \in Seeds :
       loc' = [seed |-> seed, steps |-> ScrollSteps(seed), i |-> 0, from |-> cursorPos]
  /\ op' = [name |-> "humanScroll", deltaY |-> deltaY]
  /\ pc' = "wheel"
  /\ sink' = << >>
  /\ hook' = << >>
  /\ ret' = NoValue
  /\ UNCHANGED cursorPos

\* await page.mouse.wheel(0, Math.round(scrollAmount))
ScrollWheel ==
  /\ pc = "wheel"
  /\ LET ev == Ev("wheel", 0, ScrollAmount(op.deltaY, loc.seed, loc.i), "")
     IN  \/ sink' = Append(sink, ev) /\ pc' = "pause" /\ ret' = ret
         \/ Throw(ev)
  /\ UNCHANGED <<cursorPos, op, loc, hook>>

\* await page.waitForTimeout(Math.round(rand(60, 150))) and the loop test
ScrollPause ==
  /\ pc = "pause"
  /\ LET ev == Ev("delay", ScrollPauseMs(loc.seed, loc.i), 0, "")
     IN  \/ /\ sink' = Append(sink, ev)
            /\ loc' = [loc EXCEPT !.i = loc.i + 1]
            /\ pc' = IF loc.i + 1 >= loc.steps THEN "after" ELSE "wheel"
            /\ ret' = ret
         \/ Throw(ev) /\ loc' = loc
  /\ UNCHANGED <<cursorPos, op, hook>>

\* await page.waitForTimeout(Math.round(rand(200, 500))) after the loop
ScrollSettle ==
  /\ pc = "after"
  /\ LET ev == Ev("delay", ScrollSettleMs(loc.seed, loc.steps), 0, "")
     IN  \/ sink' = Append(sink, ev) /\ pc' = "done" /\ ret' = Returned("ok", 0, 0)
         \/ Throw(ev)
  /\ UNCHANGED <<cursorPos, op, loc, hook>>

\* set position(p)
SetPosition(p) ==
  /\ pc = "idle"
  /\ cursorPos' = Pt(p.x, p.y)
  /\ UNCHANGED <<op, pc, loc, sink, hook, ret>>

\* get position(): a fresh object holding the coordinates
GetPosition ==
  /\ pc = "idle"
  /\ ret' = Returned("position", cursorPos.x, cursorPos.y)
  /\ UNCHANGED <<cursorPos, op, pc, loc, sink, hook>>

\* The caller assigns p to the fields of one of its objects: the one it passed as startPos,
\* the one it passed to the setter, or the one the getter gave it.  The controller sees the
\* write when that object is the one cursorPos refers to.
CallerWrites(o, p) ==
  /\ pc = "idle"
  /\ cursorPos' = IF o \in caller.same THEN Pt(p.x, p.y) ELSE cursorPos
  /\ UNCHANGED <<op, pc, loc, sink, hook, ret, pointer, caller>>

\* The caller takes the result (or the error) and the controller is free for the next call
Return ==
  /\ pc \in {"done", "failed"}
  /\ pc' = "idle"
  /\ op' = Idle
  /\ loc' = Idle
  /\ sink' = << >>
  /\ hook' = << >>
  /\ ret' = NoValue
  /\ UNCHANGED cursorPos

\* ── Calls made on the controller ──

ThresholdOpts == {Undef, Some(0), Some(Px(20))}
MoveOpts == {Opts(Some(2), Undef, Undef, Undef, thr) : thr \in ThresholdOpts}
\* a whole-pixel target 20 px from (0, 0), a fractional one, a far one
MoveTargets == {Pt(Px(12), Px(16)), Pt(Px(12) + 10, Px(16)), Pt(Px(340), Px(260))}
\* every target with every threshold, and one call with no options at all
MoveCalls == (MoveTargets \X MoveOpts) \cup {<<Pt(Px(12), Px(16)), NoOpts>>}

ClickOptsOf(o, button) ==
  [steps |-> o.steps, tremor |-> o.tremor, spread |-> o.spread, targetWidth |-> o.targetWidth,
   overshootThreshold |-> o.overshootThreshold, button |-> button]
Buttons == {Undef, Some("right")}
Labels == {Undef, Some("Submit")}

Box(x, y, w, h) == [x |-> x, y |-> y, width |-> w, height |-> h]
Boxes == {Box(Px(100), Px(100), Px(40), Px(20)), Box(0, 0, Px(3), Px(2))}

Next ==
  \/ (\E c \in MoveCalls : MoveTo(c[1].x, c[1].y, c[2])) /\ Unobserved
  \/ (\E b \in Boxes : MoveToElement(b, Opts(Some(2), Undef, Undef, Undef, Undef)))
       /\ Unobserved
  \/ (\E b \in Boxes, l \in Labels, bt \in Buttons :
        MoveAndClick(b, l, ClickOptsOf(Opts(Some(2), Undef, Undef, Undef, Undef), bt)))
       /\ Unobserved
  \/ (\E bt \in Buttons : Click(ClickOptsOf(NoOpts, bt))) /\ Unobserved
  \/ EnsureVisibleCursor /\ Unobserved
  \/ ReplayMove /\ Unobserved
  \/ ReplayWait /\ Unobserved
  \/ Hover /\ Unobserved
  \/ ClickDwell /\ Unobserved
  \/ ClickDown /\ Unobserved
  \/ ClickHold /\ Unobserved
  \/ ClickUp /\ Unobserved
  \/ ClickSettle /\ Unobserved
  \/ (\E p \in {Pt(Px(50), Px(50))} : SetPosition(p)) /\ Unobserved
  \/ Return /\ Unobserved

Spec == Init /\ [][Next]_vars

\* ── Human-like keyboard typing (humanType) ──

\* A string is the sequence of its characters
PunctChars == <<",", ".", " ", ";", ":", "!", "?">>

\* String.prototype.includes: some position of hay starts a copy of needle
Includes(hay, needle) ==
  \E j \in 0 .. Len(hay) - Len(needle) : SubSeq(hay, j + 1, j + Len(needle)) = needle

\* text[i] || '' for a 0-based index i
CharOrEmpty(text, i) == IF i >= 0 /\ i < Len(text) THEN <<text[i + 1]>> ELSE << >>

TypeOpts(baseDelay, variance) == [baseDelay |-> baseDelay, variance |-> variance]

\* The four draws of character i start at 4 * i
ThinkCoin(seed, i) == MathRandom(seed, 4 * i) < 80
ThinkMs(seed, i) == MathRound(rand(seed, 4 * i + 1, Ms(200), Ms(600)))
PunctMs(seed, i) == MathRound(rand(seed, 4 * i + 2, Ms(80), Ms(200)))

\* KeyDelayMs without the 20 ms floor
KeyDelayMs_noFloor(opts, seed, i) ==
  LET baseDelay == OrDefault(opts.baseDelay, Ms(65))
      variance == OrDefault(opts.variance, Ms(35))
  IN  MathRound(gauss(seed, 4 * i + 3, baseDelay, variance))

KeyDelayMs(opts, seed, i) ==
  LET baseDelay == OrDefault(opts.baseDelay, Ms(65))
      variance == OrDefault(opts.variance, Ms(35))
  IN  MathRound(Max(Ms(20), gauss(seed, 4 * i + 3, baseDelay, variance)))

TakesThink(seed, i) == ThinkCoin(seed, i) /\ i > 0
TakesPunct(text, i) == Includes(PunctChars, CharOrEmpty(text, i - 1))

\* Where the loop of humanType stops next, entering iteration i
TypeLoopPc(text, seed, i) ==
  IF i >= Len(text) THEN "done"
  ELSE IF TakesThink(seed, i) THEN "think"
  ELSE IF TakesPunct(text, i) THEN "punct"
  ELSE "press"

HumanType(text, opts) ==
  /\ pc = "idle"
  /\ \E seed \in Seeds :
       /\ loc' = [seed |-> seed, i |-> 0]
       /\ pc' = TypeLoopPc(text, seed, 0)
  /\ op' = [name |-> "humanType", text |-> text, opts |-> opts]
  /\ sink' = << >>
  /\ hook' = << >>
  /\ ret' = IF Len(text) = 0 THEN Returned("ok", 0, 0) ELSE NoValue
  /\ UNCHANGED cursorPos

\* One awaited sink call of humanType; b is the index of the character it belongs to
TypeStep(at, ev, next, i) ==
  /\ pc = at /\ op.name = "humanType"
  /\ \/ /\ sink' = Append(sink, ev)
        /\ pc' = next
        /\ loc' = [loc EXCEPT !.i = i]
        /\ ret' = IF next = "done" THEN Returned("ok", 0, 0) ELSE ret
     \/ Throw(ev) /\ loc' = loc
  /\ UNCHANGED <<cursorPos, op, hook>>

TypeThink ==
  TypeStep("think", Ev("delay", ThinkMs(loc.seed, loc.i), loc.i, "think"),
           IF TakesPunct(op.text, loc.i) THEN "punct" ELSE "press", loc.i)

TypePunct ==
  TypeStep("punct", Ev("delay", PunctMs(loc.seed, loc.i), loc.i, "punct"), "press", loc.i)

TypePress ==
  TypeStep("press", Ev("press", 0, loc.i, op.text[loc.i + 1]), "delay", loc.i)

TypeDelay ==
  TypeStep("delay", Ev("delay", KeyDelayMs(op.opts, loc.seed, loc.i), loc.i, "key"),
           TypeLoopPc(op.text, loc.seed, loc.i + 1), loc.i + 1)

MaxLen == 2

Chars == {"a", ",", " "}
RECURSIVE Strings(_)
Strings(n) == IF n = 0 THEN {<< >>}
              ELSE Strings(n - 1) \cup {Append(t, c) : t \in Strings(n - 1), c \in Chars}
Texts == Strings(MaxLen)

TypeOptsSet ==
  {TypeOpts(Undef, Undef), TypeOpts(Some(0 - Ms(100)), Undef), TypeOpts(Some(Ms(10)), Some(Ms(200)))}

InitType ==
  /\ cursorPos = Pt(0, 0)
  /\ op = Idle
  /\ pc = "idle"
  /\ loc = Idle
  /\ sink = << >>
  /\ hook = << >>
  /\ ret = NoValue
  /\ pointer = Undef
  /\ caller = NoCaller

NextType ==
  \/ (\E text \in Texts, o \in TypeOptsSet : HumanType(text, o)) /\ Unobserved
  \/ TypeThink /\ Unobserved
  \/ TypePunct /\ Unobserved
  \/ TypePress /\ Unobserved
  \/ TypeDelay /\ Unobserved
  \/ Return /\ Unobserved

SpecType == InitType /\ [][NextType]_vars

\* ── One call on a fresh controller, of every operation that drives the sink ──

MaxSeconds == 2

\* durationMs: none, below and at the first step, short, negative, and whole seconds up to
\* the default
Durations ==
  {0, Ms(99), Ms(100), Ms(600), 0 - Ms(500)} \cup {Ms(1000 * n) : n \in 1 .. MaxSeconds}
\* deltaY: one and two pixels, a page down, up, nothing
Deltas == {Px(1), Px(2), Px(300), 0 - Px(2), 0 - Px(250), 0}

\* the empty text, a letter after punctuation
CallTexts == {<< >>, <<",", "a">>}

NextCall ==
  \/ (\E c \in MoveCalls : MoveTo(c[1].x, c[1].y, c[2])) /\ Unobserved
  \/ (\E b \in Boxes, l \in Labels, bt \in Buttons :
        MoveAndClick(b, l, ClickOptsOf(Opts(Some(2), Undef, Undef, Undef, Undef), bt)))
       /\ Unobserved
  \/ (\E bt \in Buttons : Click(ClickOptsOf(NoOpts, bt))) /\ Unobserved
  \/ (\E d \in Durations : IdleDrift(d)) /\ Unobserved
  \/ (\E dy \in Deltas : HumanScroll(dy)) /\ Unobserved
  \/ (\E text \in CallTexts : HumanType(text, TypeOpts(Undef, Undef))) /\ Unobserved
  \/ EnsureVisibleCursor /\ Unobserved
  \/ ReplayMove /\ Unobserved
  \/ ReplayWait /\ Unobserved
  \/ Hover /\ Unobserved
  \/ ClickDwell /\ Unobserved
  \/ ClickDown /\ Unobserved
  \/ ClickHold /\ Unobserved
  \/ ClickUp /\ Unobserved
  \/ ClickSettle /\ Unobserved
  \/ DriftMove /\ Unobserved
  \/ DriftRest /\ Unobserved
  \/ ScrollWheel /\ Unobserved
  \/ ScrollPause /\ Unobserved
  \/ ScrollSettle /\ Unobserved
  \/ TypeThink /\ Unobserved
  \/ TypePunct /\ Unobserved
  \/ TypePress /\ Unobserved
  \/ TypeDelay /\ Unobserved

SpecCall == Init /\ [][NextCall]_vars

\* ── Sequences of calls on one controller, the sink never failing ──

\* startPos as the caller gives it, and kept by the caller
SeqStartPos == {Pt(Px(5), Px(5))}
\* whole-pixel targets: near (0, 0) and far
SeqTargets == {Pt(Px(12), Px(16)), Pt(Px(340), Px(260))}
SeqBox == Box(Px(100), Px(100), Px(2), Px(1))
SeqSet == Pt(Px(50), Px(50))
SeqWritten == Pt(Px(999), Px(7))
CallerObjects == {"startPos", "setArg", "got"}

\* let cursorPos = opts.startPos || { ... }: a startPos given is the caller's own object
InitSeq ==
  /\ \/ cursorPos \in SeqStartPos /\ caller = [same |-> {"startPos"}, override |-> FALSE]
     \/ cursorPos = DefaultStart(<<0, 0>>) /\ caller = NoCaller
  /\ op = Idle
  /\ pc = "idle"
  /\ loc = Idle
  /\ sink = << >>
  /\ hook = << >>
  /\ ret = NoValue
  /\ pointer = Undef

\* The step issued a move to the sink
Moved == Len(sink') = Len(sink) + 1 /\ Last(sink').k = "move"
\* The step ran cursorPos = { x, y } of moveTo or cursorPos = next of idleDrift: cursorPos
\* refers to a fresh object, which no caller holds
Assigned ==
  \/ pc \in {"move", "wait"} /\ pc' \in {"hover", "done"}
  \/ pc = "drift" /\ pc' = "rest"
\* Every awaited sink call resolves
Reliable == pc' # "failed"

\* What a step of an operation does to the page's pointer and to the caller's objects
Observed ==
  /\ Reliable
  /\ pointer' = IF Moved THEN Some(Pt(Last(sink').a, Last(sink').b)) ELSE pointer
  /\ caller' = [same |-> IF Assigned THEN {} ELSE caller.same,
                override |-> IF Moved THEN FALSE ELSE caller.override]

NextSeq ==
  \/ (\E t \in SeqTargets : MoveTo(t.x, t.y, Opts(Some(2), Undef, Undef, Undef, Undef)))
       /\ Observed
  \/ MoveToElement(SeqBox, Opts(Some(2), Undef, Undef, Undef, Undef)) /\ Observed
  \/ MoveAndClick(SeqBox, Undef, ClickOptsOf(Opts(Some(2), Undef, Undef, Undef, Undef), Undef))
       /\ Observed
  \/ Click(ClickOptsOf(NoOpts, Undef)) /\ Observed
  \* idleDrift is called where a moveTo or the setter left the cursor, not after a drift
  \/ (cursorPos \in SeqTargets \cup {SeqSet} /\ IdleDrift(Ms(600))) /\ Observed
  \/ HumanScroll(Px(300)) /\ Observed
  \/ EnsureVisibleCursor /\ Observed
  \/ ReplayMove /\ Observed
  \/ ReplayWait /\ Observed
  \/ Hover /\ Observed
  \/ ClickDwell /\ Observed
  \/ ClickDown /\ Observed
  \/ ClickHold /\ Observed
  \/ ClickUp /\ Observed
  \/ ClickSettle /\ Observed
  \/ DriftMove /\ Observed
  \/ DriftRest /\ Observed
  \/ ScrollWheel /\ Observed
  \/ ScrollPause /\ Observed
  \/ ScrollSettle /\ Observed
  \/ Return /\ Observed
  \* the getter hands out a copy: the caller gains no object of the controller
  \/ GetPosition /\ UNCHANGED <<pointer, caller>>
  \* the setter copies p: cursorPos is a fresh object again
  \/ SetPosition(SeqSet) /\ caller' = [same |-> {}, override |-> TRUE] /\ UNCHANGED pointer
  \/ \E o \in CallerObjects : CallerWrites(o, SeqWritten)

SpecSeq == InitSeq /\ [][NextSeq]_vars

\* ── Two overlapping calls of moveTo on one controller, the sink never failing ──

OverlapTargets == {Pt(Px(12), Px(16)), Pt(Px(40), Px(30))}
OverlapOpts == Opts(Some(1), Undef, Undef, Undef, Undef)

InitOverlap ==
  /\ cursorPos = Pt(0, 0)
  /\ op = <<Idle, Idle>>
  /\ pc = <<"idle", "idle">>
  /\ loc = <<Idle, Idle>>
  /\ sink = << >>
  /\ hook = << >>
  /\ ret = <<NoValue, NoValue>>
  /\ pointer = Undef
  /\ caller = NoCaller

\* Call c enters moveTo and runs to await ensureVisibleCursor(): the path is fixed from the
\* cursorPos of this moment.  The second call is made while the first is suspended on a
\* delay.  `at` will hold the place in the sink of the delay the call is suspended on.
ChainMoveTo(c, x, y, moveOpts) ==
  /\ pc[c] = "idle"
  /\ IF c = 1 THEN pc[2] = "idle" ELSE pc[1] = "waiting"
  /\ \E seed \in Seeds :
       loc' = [loc EXCEPT ![c] = moveToLocals(x, y, moveOpts, seed, 0) @@ [at |-> 0]]
  /\ op' = [op EXCEPT ![c] = [name |-> "moveTo", x |-> x, y |-> y, opts |-> moveOpts]]
  /\ pc' = [pc EXCEPT ![c] = "cursor"]
  /\ UNCHANGED <<cursorPos, sink, hook, ret, pointer, caller>>

\* page.mouse.move(point.x, point.y) for point i of call c, which then awaits it
ChainIssueMove(c, i) ==
  LET point == loc[c].path[i]
  IN  /\ sink' = Append(sink, Ev("move", point.x, point.y, ""))
      /\ pointer' = Some(Pt(point.x, point.y))
      /\ loc' = [loc EXCEPT ![c].i = i]
      /\ pc' = [pc EXCEPT ![c] = "moving"]
      /\ UNCHANGED <<cursorPos, ret>>

\* The next turn of the loop of call c, or cursorPos = { x, y } after the last point
ChainAdvance(c) ==
  IF loc[c].i < Len(loc[c].path)
  THEN ChainIssueMove(c, loc[c].i + 1)
  ELSE /\ cursorPos' = Pt(loc[c].x, loc[c].y)
       /\ pc' = [pc EXCEPT ![c] = "done"]
       /\ ret' = [ret EXCEPT ![c] = Returned("ok", 0, 0)]
       /\ UNCHANGED <<sink, pointer, loc>>

\* Call c resumes from await ensureVisibleCursor() and issues its first move
ChainAfterCursor(c) ==
  /\ pc[c] = "cursor"
  /\ ChainIssueMove(c, 1)
  /\ UNCHANGED <<op, hook, caller>>

\* Call c resumes from await page.mouse.move(...) and issues the suspend for dt
ChainAfterMove(c) ==
  /\ pc[c] = "moving"
  /\ LET point == loc[c].path[loc[c].i]
     IN  IF point.dt > 0
         THEN /\ sink' = Append(sink, Ev("delay", point.dt, 0, ""))
              /\ loc' = [loc EXCEPT ![c].at = Len(sink) + 1]
              /\ pc' = [pc EXCEPT ![c] = "waiting"]
              /\ UNCHANGED <<cursorPos, ret, pointer>>
         ELSE ChainAdvance(c)
  /\ UNCHANGED <<op, hook, caller>>

\* Timers fire in the order of their deadlines: the delay of call c is not over while the
\* other call is suspended on a delay that was issued earlier and is no longer
TimerDue(c) ==
  LET o == 3 - c
  IN  ~ (/\ pc[o] = "waiting" /\ loc[o].at < loc[c].at
         /\ loc[o].path[loc[o].i].dt <= loc[c].path[loc[c].i].dt)

\* Call c resumes from await page.waitForTimeout(point.dt)
ChainAfterWait(c) ==
  /\ pc[c] = "waiting"
  /\ TimerDue(c)
  /\ ChainAdvance(c)
  /\ UNCHANGED <<op, hook, caller>>

NextOverlap ==
  \/ \E c \in {1, 2}, t \in OverlapTargets : ChainMoveTo(c, t.x, t.y, OverlapOpts)
  \/ \E c \in {1, 2} : ChainAfterCursor(c)
  \/ \E c \in {1, 2} : ChainAfterMove(c)
  \/ \E c \in {1, 2} : ChainAfterWait(c)

SpecOverlap == InitOverlap /\ [][NextOverlap]_vars

\* ── Properties ──

InRange(v, lo, hi) == lo <= v /\ v <= hi

\* C1: the last point of the path returned by generatePath and by generateOvershootPath
\* is (round(to.x), round(to.y)), for every from, to and config.
C1_LastPointIsRoundedTarget ==
  (pc = "done" /\ op.name = "plan") =>
    /\ Last(ret.path).x = MathRound(op.to.x)
    /\ Last(ret.path).y = MathRound(op.to.y)

\* C2: every point of a returned path has a dt that is a whole number of ms and is >= 0.
C2_DtIntegerNonNegative ==
  (pc = "done" /\ op.name = "plan") =>
    \A i \in 1 .. Len(ret.path) : IsInt(ret.path[i].dt) /\ ret.path[i].dt >= 0

\* C3: when moveTo(x, y) completes without a sink failure, the controller's position is
\* exactly (x, y) as passed, whichever path was replayed and whatever its last point was.
C3_MoveToEndsAtExactTarget ==
  (pc = "done" /\ op.name = "moveTo") => cursorPos = Pt(op.x, op.y)

\* moveTo completed after an overshoot replay whose last sampled point is not the target
C3_Witness ==
  /\ pc = "done" /\ op.name = "moveTo" /\ loc.over
  /\ Last(loc.path).x # op.x
  /\ Last(sink).ok

\* C4: the point returned by moveToElement lies on each axis within
\* [origin + 0.15 * size, origin + 0.85 * size], for every bounding box.
C4_TargetInsideInner70 ==
  (pc = "done" /\ op.name = "moveToElement") =>
    /\ InRange(ret.x, op.box.x + Mul(op.box.width, 150), op.box.x + Mul(op.box.width, 850))
    /\ InRange(ret.y, op.box.y + Mul(op.box.height, 150), op.box.y + Mul(op.box.height, 850))

\* C5: moveToElement never returns the exact center of the box and never a point on an
\* edge of the box.
C5_NeverCenterNeverEdge ==
  (pc = "done" /\ op.name = "moveToElement") =>
    /\ ~ (2 * ret.x = 2 * op.box.x + op.box.width /\ 2 * ret.y = 2 * op.box.y + op.box.height)
    /\ ret.x \notin {op.box.x, op.box.x + op.box.width}
    /\ ret.y \notin {op.box.y, op.box.y + op.box.height}

\* The j-th sink call of a click on `button`
ClickCallOk(e, j, button) ==
  CASE j = 1 -> e.k = "delay" /\ IsInt(e.a) /\ InRange(e.a, Ms(60), Ms(180))
    [] j = 2 -> e.k = "down" /\ e.s = button
    [] j = 3 -> e.k = "delay" /\ IsInt(e.a) /\ InRange(e.a, Ms(50), Ms(120))
    [] j = 4 -> e.k = "up" /\ e.s = button
    [] j = 5 -> e.k = "delay" /\ IsInt(e.a) /\ InRange(e.a, Ms(80), Ms(200))
    [] OTHER -> FALSE

\* C6: click issues, in this order and nothing else: a suspend (60-180 ms), one button-down,
\* a suspend (50-120 ms), one button-up for the same button, a suspend (80-200 ms); at every
\* moment what has been issued is a prefix of that sequence.
C6_ClickSequence ==
  (op.name = "click") =>
    /\ \A j \in 1 .. Len(sink) : ClickCallOk(sink[j], j, IF j >= 2 THEN sink[2].s ELSE "")
    /\ pc = "done" => (Len(sink) = 5 /\ \A j \in 1 .. 5 : sink[j].ok)

\* a completed click of the right button
C6_Witness ==
  /\ pc = "done" /\ op.name = "click" /\ op.opts.button = Some("right")
  /\ Len(sink) = 5 /\ sink[2].s = "right" /\ sink[4].k = "up"

\* The sink calls a replay of path issues
RECURSIVE ReplayCalls(_)
ReplayCalls(path) ==
  IF path = << >> THEN << >>
  ELSE LET pt == Head(path)
       IN  <<Ev("move", pt.x, pt.y, "")>>
           \o (IF pt.dt > 0 THEN <<Ev("delay", pt.dt, 0, "")>> ELSE << >>)
           \o ReplayCalls(Tail(path))

\* C7: moveAndClick performs the whole moveToElement replay, then a hover suspend
\* (100-400 ms), then the click sequence; it returns the point moveToElement chose, and the
\* log hook was called exactly once, with the label (or 'element') and that point.
C7_MoveAndClickSequence ==
  (op.name = "moveAndClick") =>
    /\ Len(hook) <= 1
    /\ pc \in {"cursor", "move", "wait", "hover"} => hook = << >>
    /\ pc = "done" =>
         LET n == Len(ReplayCalls(loc.path))
         IN  /\ Len(sink) = n + 6
             /\ SubSeq(sink, 1, n) = ReplayCalls(loc.path)
             /\ sink[n + 1].k = "delay" /\ InRange(sink[n + 1].a, Ms(100), Ms(400))
             /\ \A j \in 1 .. 5 : ClickCallOk(sink[n + 1 + j], j, ButtonOf(op.opts))
             /\ ret = Returned("ok", loc.tx, loc.ty)
             /\ Pt(ret.x, ret.y) = Pt(loc.x, loc.y)
             /\ cursorPos = Pt(ret.x, ret.y)
             /\ hook = << [label |-> LabelOf(op.label), x |-> ret.x, y |-> ret.y] >>

\* a completed moveAndClick with a label
C7_Witness ==
  /\ pc = "done" /\ op.name = "moveAndClick" /\ op.label = Some("Submit")
  /\ Len(hook) = 1 /\ hook[1].label = "Submit"
  /\ Len(sink) > 6

RECURSIVE DelaySum(_, _, _)
DelaySum(evs, lo, hi) ==
  IF lo > hi THEN 0
  ELSE (IF evs[lo].k = "delay" THEN evs[lo].a ELSE 0) + DelaySum(evs, lo + 1, hi)

\* C9: the total suspend time between two consecutive key presses issued by typeText is
\* at least 20 ms, for every text, baseDelay and variance and every Gaussian draw.
C9_KeyGapAtLeast20 ==
  (op.name = "humanType") =>
    \A j1 \in 1 .. Len(sink) : \A j2 \in 1 .. Len(sink) :
      (/\ j1 < j2 /\ sink[j1].k = "press" /\ sink[j2].k = "press"
       /\ \A m \in j1 + 1 .. j2 - 1 : sink[m].k # "press")
      => DelaySum(sink, j1 + 1, j2 - 1) >= Ms(20)

\* two key presses separated by exactly the 20 ms floor, the Gaussian draw being far below it
C9_Witness ==
  /\ op.name = "humanType"
  /\ \E j \in 1 .. Len(sink) - 2 :
       /\ sink[j].k = "press" /\ sink[j + 2].k = "press"
       /\ sink[j + 1].k = "delay" /\ sink[j + 1].a = Ms(20)
       /\ gauss(loc.seed, 4 * sink[j].b + 3, OrDefault(op.opts.baseDelay, Ms(65)),
                OrDefault(op.opts.variance, Ms(35))) < 0

\* C10: moveTo replays an overshoot path only when the distance from the current position
\* to the target is strictly greater than overshootThreshold (300 unless the caller gives
\* one, 0 included); at or below the threshold the path it is about to replay (fixed before
\* the first await) is the direct one.
C10_OvershootOnlyBeyondThreshold ==
  (op.name = "moveTo") =>
    LET thr == IF op.opts.overshootThreshold = {} THEN Px(300)
               ELSE Get(op.opts.overshootThreshold)
        dx == op.x - loc.from.x
        dy == op.y - loc.from.y
        beyond == dx * dx + dy * dy > thr * thr
    IN  /\ loc.over => beyond
        /\ (~ beyond /\ pc = "cursor") =>
             loc.path = generatePath(loc.from, Pt(op.x, op.y), op.opts, loc.seed, 1)
        /\ (op.opts.steps # {} /\ Len(loc.path) > Get(op.opts.steps) + 1) => beyond

\* an overshoot replay under a caller-supplied threshold of 0
C10_Witness ==
  /\ op.name = "moveTo" /\ loc.over /\ op.opts.overshootThreshold = Some(0)
  /\ op.opts.steps # {} /\ Len(loc.path) > Get(op.opts.steps) + 1
  /\ pc = "done"

\* a direct replay although the distance is beyond the threshold
C10_DirectBeyondThreshold ==
  /\ op.name = "moveTo" /\ ~ loc.over /\ op.opts.overshootThreshold = Some(0)
  /\ loc.from # Pt(op.x, op.y)
  /\ pc = "done"

\* C11: when a sink call fails during moveTo, click, moveAndClick, idleDrift, humanScroll
\* or typeText, the operation ends with that failure as its outcome: the failed call is the
\* last call the operation ever issued (no retry, no further call), every call before it
\* succeeded, and the caller receives the error.
C11_SinkFailureIsFatal ==
  /\ \A j \in 1 .. Len(sink) :
       ~ sink[j].ok => (j = Len(sink) /\ pc = "failed" /\ ret = Returned("error", 0, 0))
  /\ pc = "failed" => (Len(sink) > 0 /\ ~ Last(sink).ok)
  /\ ret.status = "error" => pc = "failed"

\* idleDrift stopped by the failure of its second move, after a full first step
C11_Witness ==
  /\ pc = "failed" /\ op.name = "idleDrift" /\ loc.steps > 2
  /\ Len(sink) = 3 /\ sink[1].k = "move" /\ sink[2].k = "delay" /\ sink[3].k = "move"
  /\ ~ sink[3].ok

\* A step of a moving operation, and a step of the position setter
MovingStep ==
  /\ op.name \in {"moveTo", "moveToElement", "moveAndClick", "idleDrift"}
  /\ pc \in {"move", "wait", "drift"}
SetterStep == pc = "idle" /\ caller' = [same |-> {}, override |-> TRUE]

\* C12: the controller's position changes only in a step of moveTo, moveToElement,
\* moveAndClick or idleDrift or in the position setter (so never during click or
\* humanScroll), and a write of the caller to the object it passed as startPos, passed to
\* the setter or got from the getter leaves the position as it is.
C12_PositionOwned ==
  [][/\ cursorPos' # cursorPos => (MovingStep \/ SetterStep)
     /\ (\E o \in CallerObjects : CallerWrites(o, SeqWritten)) => cursorPos' = cursorPos]_vars

\* The scroll-by calls among evs, and the sum of their vertical amounts
Wheels(evs) == SelectSeq(evs, LAMBDA e : e.k = "wheel")
RECURSIVE WheelSum(_)
WheelSum(evs) == IF evs = << >> THEN 0 ELSE Head(evs).b + WheelSum(Tail(evs))

\* C13: humanScroll(deltaY) issues between 3 and 6 scroll-by calls, each with horizontal
\* delta 0, and the vertical amounts add up to deltaY within the noise band: with a
\* deviation of 15% per step, even four deviations on every step keep the sum within 60% of
\* deltaY.  For every deltaY, small ones (1, 2) and negative ones included.
C13_ScrollApproximatesDelta ==
  (op.name = "humanScroll") =>
    /\ Len(Wheels(sink)) <= 6
    /\ \A j \in 1 .. Len(sink) : sink[j].k = "wheel" => sink[j].a = 0
    /\ pc = "done" =>
         /\ Len(Wheels(sink)) >= 3
         /\ Abs(WheelSum(Wheels(sink)) - op.deltaY) <= Mul(Abs(op.deltaY), 600)

\* C14: every drift step of idleDrift(d) issues one move followed by one suspend of a whole
\* number of ms in 150..400, and the suspends of a completed idleDrift(d) add up to d
\* within a tolerance bounded in d: nothing for d <= 0, and for d > 0 between
\* 0.3 * d - 75 and 2 * d + 200 ms.
C14_DriftTimeWithinTolerance ==
  (op.name = "idleDrift") =>
    /\ \A j \in 1 .. Len(sink) :
         IF j % 2 = 1 THEN sink[j].k = "move"
         ELSE sink[j].k = "delay" /\ IsInt(sink[j].a) /\ InRange(sink[j].a, Ms(150), Ms(400))
    /\ pc = "done" =>
         LET d == op.durationMs
             total == DelaySum(sink, 1, Len(sink))
         IN  /\ Len(sink) % 2 = 0
             /\ IF d <= 0 THEN total = 0
                ELSE InRange(total, Mul(d, 300) - Ms(75), 2 * d + Ms(200))

\* the default idleDrift(2000) in ten steps, suspended for longer than asked
C14_Witness ==
  /\ pc = "done" /\ op.name = "idleDrift" /\ op.durationMs = Ms(2000)
  /\ loc.steps = 10 /\ Len(sink) = 20
  /\ DelaySum(sink, 1, Len(sink)) > Ms(2000)

\* round(log2(distance / targetWidth + 1) * 18 + extra), a count
FittsCount(from, to, opts, extra) ==
  LET targetWidth == OrDefault(opts.targetWidth, Px(50))
      fittsTime == MathLog2(vec_mag(vec_sub(to, from)) + targetWidth, targetWidth)
  IN  (fittsTime * 18 + extra * K + K \div 2) \div K

\* C15: when config.steps is not given and from and to are at least 1 px apart, the path
\* returned by generatePath has at least 15 points and their number lies in
\* [round(log2(d/w + 1) * 18 + 5), round(log2(d/w + 1) * 18 + 15)]; from (0, 0) to (500, 0)
\* with targetWidth 50 that is [67, 77].
C15_PointCountInFittsInterval ==
  (/\ pc = "done" /\ op.name = "plan" /\ ret.fn = "generatePath"
   /\ op.opts.steps = {} /\ ~ MagBelowOne(vec_sub(op.to, op.from)))
  => /\ Len(ret.path) >= 15
     /\ InRange(Len(ret.path), FittsCount(op.from, op.to, op.opts, 5),
                FittsCount(op.from, op.to, op.opts, 15))
     /\ (op.from = Pt(0, 0) /\ op.to = Pt(Px(500), 0)) => InRange(Len(ret.path), 67, 77)

\* C16: for every from and to, the first leg of generateOvershootPath ends past the target
\* by 8 to 35 px measured along the direction from -> to, hence at least 8 px away from the
\* target and never on it.  The endpoint is a whole-pixel point: 1 px is allowed for that.
C16_OvershootBy8To35 ==
  (pc = "done" /\ op.name = "plan" /\ ret.fn = "generateOvershootPath") =>
    LET e == Last(ret.leg1)
        past == vec_sub(Pt(e.x, e.y), op.to)
        dir == vec_sub(op.to, op.from)
        along == past.x * dir.x + past.y * dir.y
    IN  /\ Pt(e.x, e.y) # op.to
        /\ past.x * past.x + past.y * past.y >= Px(7) * Px(7)
        /\ InRange(along, Px(7) * vec_mag(dir), Px(36) * (vec_mag(dir) + 1))

\* C17: moveTo issues exactly one sink move per point of the path it generated, in path
\* order, each followed (when the point's dt > 0) by the suspend for that dt, which is over
\* before the next move is issued; the calls issued so far are always the first calls of
\* that sequence, the replay stops short of the last point only when a sink call fails, and
\* a completed moveTo has issued the whole sequence.
C17_ReplayInPathOrder ==
  (op.name = "moveTo") =>
    LET calls == ReplayCalls(loc.path)
    IN  /\ Len(sink) <= Len(calls)
        /\ \A j \in 1 .. Len(sink) : [sink[j] EXCEPT !.ok = TRUE] = calls[j]
        /\ pc \in {"cursor", "move", "wait", "done", "failed"}
        /\ pc \in {"cursor", "move"} =>
             (Len(sink) < Len(calls) /\ calls[Len(sink) + 1].k = "move")
        /\ pc = "wait" => (Len(sink) < Len(calls) /\ calls[Len(sink) + 1].k = "delay")
        /\ pc = "done" => sink = calls
        /\ pc = "failed" <=> (Len(sink) > 0 /\ ~ Last(sink).ok)

\* a completed overshoot replay: twelve or more points, a suspend after each
C17_Witness ==
  /\ pc = "done" /\ op.name = "moveTo" /\ loc.over
  /\ Len(loc.path) >= 12 /\ Len(sink) = 2 * Len(loc.path)
  /\ \A j \in 1 .. Len(loc.path) :
       sink[2 * j - 1].k = "move" /\ sink[2 * j - 1].a = loc.path[j].x /\ sink[2 * j].k = "delay"

\* C18: in a sequence of calls of moveTo, moveToElement, moveAndClick, idleDrift, click and
\* humanScroll, one after the other, with whole-pixel targets and a sink that never fails:
\* whenever no operation is in progress, a move has been issued and the caller has not set
\* the position since the last one, the position the controller reports is where the most
\* recent move sent the pointer.
C18_PositionIsLastMove ==
  (pc \in {"idle", "done"} /\ pointer # Undef /\ ~ caller.override) =>
    /\ cursorPos = Get(pointer)
    /\ pc = "idle" /\ ret.status = "position" => Pt(ret.x, ret.y) = Get(pointer)

\* an idleDrift of two steps or more has completed away from where it began
C18_Witness ==
  /\ pc = "done" /\ op.name = "idleDrift" /\ loc.steps >= 2
  /\ pointer = Some(cursorPos) /\ cursorPos # loc.from
  /\ ~ caller.override

\* C19: when two calls of moveTo overlap (the second is made while the first is suspended
\* on a delay), then however their moves and timers interleave, once both have completed
\* the position the controller reports is where the last move issued sent the pointer.
C19_OverlapEndsAtLastMove ==
  (pc = <<"done", "done">>) => cursorPos = Get(pointer)

====
